---- MODULE Spec2Model ----
(***************************************************************************)
(* A model of stitcher/fuse_runner.py: FuseRunner.output_shape and         *)
(* FuseRunner.run, the producer side of the fusion, together with the      *)
(* consumer thread (fuse_queue) that run() starts for every chunk.         *)
(*                                                                         *)
(* Sizes in bytes are counted in units of 2^20 bytes (the XY planes drawn  *)
(* below hold a whole number of Mi elements), so that the 0.95 * 2^32      *)
(* threshold of line 93 is 0.95 * 4096 units.                              *)
(***************************************************************************)
EXTENDS Integers, Sequences, FiniteSets, TLC

\* ------------------------------------------------------------- bounds
MaxZs == 1          \* raw tile Z origins are drawn from 0..MaxZs
MaxFrms == 2        \* tile frame counts are drawn from 1..MaxFrms
MaxTiles == 2       \* tiles of a freely drawn layout
ManyTiles == 22     \* tiles of a uniform layout (more than the queue holds)
MaxZmin == 1        \* the user's --zmin is drawn from 0..MaxZmin
MaxPages == 2       \* pages of a TIFF file are drawn from 1..MaxPages
MaxFiles == 3       \* files of a directory tile are drawn from 1..MaxFiles

\* ------------------------------------------------- program constants
QueueMaxSize == 20  \* Queue(maxsize=20)
FloatItemSize == 4  \* bytes of a float32 element
None == -1          \* Python's None (zmax unset; the fields of the sentinel)

\* 2^32 bytes in units of 2^20 bytes
TwoPow32 == 4096

Min(a, b) == IF a <= b THEN a ELSE b
Max(a, b) == IF a >= b THEN a ELSE b

VARIABLES
    df,                 \* fm.data_frame: the rows (Zs, Ys, Xs, nfrms), in table order
    full_thickness,     \* fm.full_thickness
    ram,                \* psutil.virtual_memory().total
    xy_elems,           \* elements of one XY plane (channels included)
    itemsize,           \* self.dtype.itemsize
    zmin, zmax,         \* self.zmin, self.zmax
    zmin0, zmax0,       \* the zmin and zmax run() was called with
    pc,                 \* where run() is
    bigtiff,            \* local bigtiff
    n_frames_in_ram,    \* local n_frames_in_ram
    partial_thickness,  \* local partial_thickness
    chunk,              \* number of iterations of the chunk loop begun
    tileIdx,            \* position of the iterrows() loop
    slice,              \* the placement about to be put
    q,                  \* the chunk's Queue
    fused,              \* the chunk's accumulation buffer
    alive,              \* the chunks whose consumer thread is running
    outfile,            \* the planes of the file at output_filename
    enqueued,           \* history: the items put on q, in order
    observed,           \* history: the items the consumer got, in order
    starts, joins, appends, reads,  \* history: t.start(), t.join(), imsave, f.slice calls
    placed,             \* history: (chunk, tile, z_from, z_to) of every placement put
    tw                  \* a TiffWrapper: its mode, its files, its last slice() call

inputs == <<full_thickness, ram, xy_elems, itemsize, zmin0, zmax0>>
locals == <<bigtiff, n_frames_in_ram, partial_thickness, chunk, tileIdx, slice>>
history == <<enqueued, observed, starts, joins, appends, reads, placed>>
vars == <<df, inputs, zmin, zmax, pc, locals, q, fused, alive, outfile, history, tw>>

\* ------------------------------------------------------ the tile table

\* the rows of fm.data_frame a layout may hold
TileRows == [Zs : 0..MaxZs, Ys : {0}, Xs : {0}, nfrms : 1..MaxFrms]

\* a row of tiles along X: the tile at position i of rows zs
RowOfTiles(zs) == [i \in 1..Len(zs) |-> [zs[i] EXCEPT !.Xs = i]]

SeqsUpTo(S, n) == UNION {[1..k -> S] : k \in 1..n}

\* the layouts: every row of up to MaxTiles tiles, and the rows of ManyTiles equal tiles
Layouts ==
    {RowOfTiles(zs) : zs \in SeqsUpTo(TileRows, MaxTiles)}
        \cup {RowOfTiles([i \in 1..ManyTiles |-> r]) : r \in TileRows}

RECURSIVE SeqMinOf(_, _, _)
SeqMinOf(rows, key, i) ==
    IF i = Len(rows) THEN rows[i][key]
    ELSE Min(rows[i][key], SeqMinOf(rows, key, i + 1))

RECURSIVE SeqMaxEnd(_, _)
SeqMaxEnd(rows, i) ==
    IF i = Len(rows) THEN rows[i].Zs + rows[i].nfrms
    ELSE Max(rows[i].Zs + rows[i].nfrms, SeqMaxEnd(rows, i + 1))

\* the table's full extent along Z
FullThickness(rows) == SeqMaxEnd(rows, 1) - SeqMinOf(rows, "Zs", 1)

\* the overlaps of tile i with its neighbours in the row, in tile i's own frames
OverlapWith(rows, i, j) ==
    [Z_from |-> Max(rows[j].Zs - rows[i].Zs, 0),
     Z_to |-> Min(rows[j].Zs + rows[j].nfrms - rows[i].Zs, rows[i].nfrms)]

FmOverlaps(rows, i) ==
    LET cand == (IF i > 1 THEN <<OverlapWith(rows, i, i - 1)>> ELSE <<>>)
                \o (IF i < Len(rows) THEN <<OverlapWith(rows, i, i + 1)>> ELSE <<>>)
    IN SelectSeq(cand, LAMBDA o : o.Z_from < o.Z_to)

\* ------------------------------------------------------- output_shape

\* output_shape[0]
OutputDepth(thickness0, zmn, zmx) ==
    LET thickness1 == IF zmx # None THEN thickness0 - (thickness0 - zmx)
                      ELSE thickness0
    IN thickness1 - zmn

\* df[key] -= df[key].min() for Xs, Ys, Zs
NormalizeOrigins(rows) ==
    [i \in 1..Len(rows) |->
        [rows[i] EXCEPT !.Xs = @ - SeqMinOf(rows, "Xs", 1),
                        !.Ys = @ - SeqMinOf(rows, "Ys", 1),
                        !.Zs = @ - SeqMinOf(rows, "Zs", 1)]]

\* prod(output_shape) * itemsize
TotalByteSize(depth, plane, isz) == depth * plane * isz

\* total_byte_size > 0.95 * 2**32
BigtiffDecision(total) == total * 100 > 95 * TwoPow32

\* prod(output_shape[1::]) * 4
XYSize(plane) == plane * FloatItemSize

\* int(ram / xy_size / 1.5): the floor of 2 ram / (3 xy_size); the float quotient
\* of the sizes drawn in Init truncates to the same integer
FramesInRamRoundedUp(r, xy_size) == (2 * r) \div (3 * xy_size) + 1
FramesInRam(r, xy_size) == (2 * r) \div (3 * xy_size)

\* n_loops chunks of n frames, plus the remainder
PartialThicknessNoRemainder(depth, n) == [i \in 1..(depth \div n) |-> n]
PartialThickness(depth, n) ==
    LET n_loops == depth \div n
        remainder == depth % n
    IN [i \in 1..n_loops |-> n] \o (IF remainder # 0 THEN <<remainder>> ELSE <<>>)

\* ---------------------------------------------------------- the state

NoSlice == [slice |-> <<None, None, None>>, top_left |-> <<None, None, None>>,
            overlaps |-> <<>>]
\* [None, None, None]; recognised by its top_left
Sentinel == NoSlice
IsSentinel(item) == item.top_left[1] = None

NoBuffer == [depth |-> None, data |-> {}, dtype |-> "none"]
StalePlane == [z |-> 0, run |-> "old", bigtiff |-> FALSE]

\* a TiffWrapper before open()
TwClosed == [opened |-> FALSE, glob_mode |-> FALSE, pages |-> 0, nfiles |-> 0,
             call |-> <<None, None>>,
             result |-> [ok |-> FALSE, frames |-> <<>>, shape |-> <<>>]]

Init ==
    /\ df \in Layouts
    /\ full_thickness = FullThickness(df)
    /\ ram \in {4096, 8192}
    /\ xy_elems \in {256, 973}
    /\ itemsize \in {1, 2}
    /\ IF Len(df) > MaxTiles
       THEN zmin0 = 0 /\ zmax0 = None
       ELSE /\ zmin0 \in 0..MaxZmin
            /\ zmax0 \in {None} \cup (zmin0..(full_thickness + 1))
            /\ OutputDepth(full_thickness, zmin0, zmax0) >= 0
    /\ zmin = zmin0
    /\ zmax = zmax0
    /\ pc = "start"
    /\ bigtiff = FALSE
    /\ n_frames_in_ram = 0
    /\ partial_thickness = <<>>
    /\ chunk = 0
    /\ tileIdx = 0
    /\ slice = NoSlice
    /\ q = <<>>
    /\ fused = NoBuffer
    /\ alive = {}
    /\ outfile \in {<<>>, <<StalePlane>>}
    /\ enqueued = <<>>
    /\ observed = <<>>
    /\ starts = 0 /\ joins = 0 /\ appends = 0 /\ reads = 0
    /\ placed = <<>>
    /\ tw = TwClosed

\* ------------------------------------------------- the producer: run()

CurTile == df[tileIdx]

\* z_to of the tile at the iterator, as lines 123-129 compute it
ZToIgnoresZmax(row) == row.nfrms
ZTo(row) ==
    LET z_to == IF zmax = None THEN row.nfrms ELSE zmax - row.Zs
    IN IF z_to > row.nfrms THEN row.nfrms ELSE z_to

\* z_from of the tile at the iterator, as lines 134-137 compute it
ZFromAlwaysZero(row) == 0
ZFrom(row) ==
    LET z_from == zmin - row.Zs
    IN IF z_from < 0 THEN 0 ELSE z_from

\* the two `continue`s of the loop body
SkippedOnlyZTo(row) == ZTo(row) <= 0
Skipped(row) == ZTo(row) <= 0 \/ ZFrom(row) >= ZTo(row)

\* the filter, shift and clamp of the tile's overlaps
ClipOverlapsNoClamp(ov, z_from, z_to) ==
    LET kept == SelectSeq(ov, LAMBDA o : o.Z_from <= z_to /\ o.Z_to >= z_from)
    IN [k \in 1..Len(kept) |-> [Z_from |-> kept[k].Z_from - z_from,
                                Z_to |-> kept[k].Z_to - z_from]]
ClipOverlaps(ov, z_from, z_to) ==
    LET kept == SelectSeq(ov, LAMBDA o : o.Z_from <= z_to /\ o.Z_to >= z_from)
    IN [k \in 1..Len(kept) |->
            LET shifted == [Z_from |-> kept[k].Z_from - z_from,
                            Z_to |-> kept[k].Z_to - z_from]
            IN IF shifted.Z_from < 0 THEN [shifted EXCEPT !.Z_from = 0] ELSE shifted]

\* [slice, top_left, overlaps] for the tile at the iterator
PlacementTopLeftNoZFrom(i) ==
    LET row == df[i]
        z_from == ZFrom(row)
        z_to == ZTo(row)
    IN [slice |-> <<i, z_from, z_to>>,
        top_left |-> <<row.Zs - zmin, row.Ys, row.Xs>>,
        overlaps |-> ClipOverlaps(FmOverlaps(df, i), z_from, z_to)]
Placement(i) ==
    LET row == df[i]
        z_from == ZFrom(row)
        z_to == ZTo(row)
    IN [slice |-> <<i, z_from, z_to>>,
        top_left |-> <<row.Zs + z_from - zmin, row.Ys, row.Xs>>,
        overlaps |-> ClipOverlaps(FmOverlaps(df, i), z_from, z_to)]

\* Queue.put blocks while the queue holds maxsize items
QueueNeverFull(queue) == FALSE
QueueFull(queue) == Len(queue) >= QueueMaxSize

\* Queue.put appends at the tail
QueuePutFront(queue, item) == <<item>> \o queue
QueuePut(queue, item) == Append(queue, item)

\* the bigtiff argument of imsave
AppendBigtiffOfChunk ==
    BigtiffDecision(TotalByteSize(OutputDepth(full_thickness, zmin, zmax),
                                  xy_elems, itemsize))
AppendBigtiff == bigtiff

\* lines 87-106: normalise the origins, decide bigtiff, size the chunks.
\* n_frames_in_ram = 0 makes the // of line 101 raise ZeroDivisionError.
Prepare ==
    /\ pc = "start"
    /\ df' = NormalizeOrigins(df)
    /\ bigtiff' = BigtiffDecision(
            TotalByteSize(OutputDepth(full_thickness, zmin, zmax), xy_elems, itemsize))
    /\ n_frames_in_ram' = FramesInRam(ram, XYSize(xy_elems))
    /\ IF n_frames_in_ram' = 0
       THEN /\ pc' = "failed"
            /\ UNCHANGED partial_thickness
       ELSE /\ pc' = "remove"
            /\ partial_thickness' =
                  PartialThickness(OutputDepth(full_thickness, zmin, zmax),
                                   n_frames_in_ram')
    /\ UNCHANGED <<tw, inputs, zmin, zmax, chunk, tileIdx, slice, q, fused, alive,
                   outfile, history>>

\* lines 108-111: os.remove(output_filename), a missing file ignored
RemoveOutputKeepsFile ==
    /\ pc = "remove"
    /\ pc' = "loop"
    /\ UNCHANGED <<tw, df, inputs, zmin, zmax, locals, q, fused, alive, outfile, history>>
RemoveOutput ==
    /\ pc = "remove"
    /\ outfile' = <<>>
    /\ pc' = "loop"
    /\ UNCHANGED <<tw, df, inputs, zmin, zmax, locals, q, fused, alive, history>>

\* lines 113-120: the next thickness; zmax, a zeroed buffer, a queue, the consumer
StartChunk ==
    /\ pc = "loop"
    /\ chunk < Len(partial_thickness)
    /\ chunk' = chunk + 1
    /\ zmax' = zmin + partial_thickness[chunk']
    /\ fused' = [depth |-> OutputDepth(full_thickness, zmin, zmax'),
                 data |-> {}, dtype |-> "float32"]
    /\ q' = <<>>
    /\ alive' = alive \cup {chunk'}
    /\ starts' = starts + 1
    /\ enqueued' = <<>>
    /\ observed' = <<>>
    /\ tileIdx' = 1
    /\ pc' = "iter"
    /\ UNCHANGED <<tw, df, inputs, zmin, bigtiff, n_frames_in_ram, partial_thickness,
                   slice, outfile, joins, appends, reads, placed>>

\* the chunk loop is exhausted: run() returns
Finish ==
    /\ pc = "loop"
    /\ chunk = Len(partial_thickness)
    /\ pc' = "done"
    /\ UNCHANGED <<tw, df, inputs, zmin, zmax, locals, q, fused, alive, outfile, history>>

\* lines 122-140: a tile with no frame in the window is passed over
SkipTile ==
    /\ pc = "iter"
    /\ tileIdx <= Len(df)
    /\ Skipped(CurTile)
    /\ tileIdx' = tileIdx + 1
    /\ UNCHANGED <<tw, df, inputs, zmin, zmax, pc, bigtiff, n_frames_in_ram,
                   partial_thickness, chunk, slice, q, fused, alive, outfile, history>>

\* lines 142-158: the tile's file is opened and sliced, the placement built
ReadTile ==
    /\ pc = "iter"
    /\ tileIdx <= Len(df)
    /\ ~Skipped(CurTile)
    /\ reads' = reads + 1
    /\ slice' = Placement(tileIdx)
    /\ pc' = "put"
    /\ UNCHANGED <<tw, df, inputs, zmin, zmax, bigtiff, n_frames_in_ram,
                   partial_thickness, chunk, tileIdx, q, fused, alive, outfile,
                   enqueued, observed, starts, joins, appends, placed>>

\* line 142: the tile's file is missing; InputFile raises and the exception leaves run()
ReadTileFails ==
    /\ pc = "iter"
    /\ tileIdx <= Len(df)
    /\ ~Skipped(CurTile)
    /\ pc' = "aborted"
    /\ UNCHANGED <<tw, df, inputs, zmin, zmax, locals, q, fused, alive, outfile, history>>

\* line 160: q.put([slice, top_left, overlaps])
PutPlacement ==
    /\ pc = "put"
    /\ ~QueueFull(q)
    /\ q' = QueuePut(q, slice)
    /\ enqueued' = Append(enqueued, slice)
    /\ placed' = Append(placed, <<chunk>> \o slice.slice)
    /\ slice' = NoSlice
    /\ tileIdx' = tileIdx + 1
    /\ pc' = "iter"
    /\ UNCHANGED <<tw, df, inputs, zmin, zmax, bigtiff, n_frames_in_ram,
                   partial_thickness, chunk, fused, alive, outfile,
                   observed, starts, joins, appends, reads>>

\* line 162: q.put([None, None, None]) once the tiles are exhausted
PutSentinelForgotten ==
    /\ pc = "iter"
    /\ tileIdx > Len(df)
    /\ pc' = "join"
    /\ UNCHANGED <<tw, df, inputs, zmin, zmax, locals, q, fused, alive, outfile, history>>
PutSentinelSkipsJoin ==
    /\ pc = "iter"
    /\ tileIdx > Len(df)
    /\ ~QueueFull(q)
    /\ q' = QueuePut(q, Sentinel)
    /\ enqueued' = Append(enqueued, Sentinel)
    /\ pc' = "convert"
    /\ UNCHANGED <<tw, df, inputs, zmin, zmax, locals, fused, alive, outfile,
                   observed, starts, joins, appends, reads, placed>>
PutSentinel ==
    /\ pc = "iter"
    /\ tileIdx > Len(df)
    /\ ~QueueFull(q)
    /\ q' = QueuePut(q, Sentinel)
    /\ enqueued' = Append(enqueued, Sentinel)
    /\ pc' = "join"
    /\ UNCHANGED <<tw, df, inputs, zmin, zmax, locals, fused, alive, outfile,
                   observed, starts, joins, appends, reads, placed>>

\* line 164: t.join() returns once the chunk's consumer has terminated
JoinWithoutWaiting ==
    /\ pc = "join"
    /\ joins' = joins + 1
    /\ pc' = "convert"
    /\ UNCHANGED <<tw, df, inputs, zmin, zmax, locals, q, fused, alive, outfile,
                   enqueued, observed, starts, appends, reads, placed>>
Join ==
    /\ pc = "join"
    /\ chunk \notin alive
    /\ joins' = joins + 1
    /\ pc' = "convert"
    /\ UNCHANGED <<tw, df, inputs, zmin, zmax, locals, q, fused, alive, outfile,
                   enqueued, observed, starts, appends, reads, placed>>

\* lines 167-170: moveaxis for multichannel data, then to_dtype(fused, self.dtype)
ConvertChunk ==
    /\ pc = "convert"
    /\ fused' = [fused EXCEPT !.dtype = "output"]
    /\ pc' = "save"
    /\ UNCHANGED <<tw, df, inputs, zmin, zmax, locals, q, alive, outfile, history>>

\* the planes of the buffer, as imsave appends them
PlanesOf(buffer, z0, big) ==
    [k \in 1..buffer.depth |-> [z |-> z0 + k - 1, run |-> "new", bigtiff |-> big]]

\* lines 171-174: imsave(..., append=True, bigtiff=bigtiff); zmin += thickness
AppendChunk ==
    /\ pc = "save"
    /\ outfile' = outfile \o PlanesOf(fused, zmin, AppendBigtiff)
    /\ appends' = appends + 1
    /\ zmin' = zmin + partial_thickness[chunk]
    /\ pc' = "loop"
    /\ UNCHANGED <<tw, df, inputs, zmax, locals, q, fused, alive,
                   enqueued, observed, starts, joins, reads, placed>>

\* -------------------------------------------- the consumer: fuse_queue

\* the voxel planes a placement writes: (buffer plane, tile, tile frame)
Written(item) ==
    {<<item.top_left[1] + f, item.slice[1], item.slice[2] + f>> :
        f \in 0..(item.slice[3] - item.slice[2] - 1)}

\* q.get(): the sentinel ends the thread, a placement is fused into the buffer
ConsumerGet ==
    /\ chunk \in alive
    /\ q # <<>>
    /\ q' = Tail(q)
    /\ observed' = Append(observed, Head(q))
    /\ IF IsSentinel(Head(q))
       THEN alive' = alive \ {chunk} /\ UNCHANGED fused
       ELSE fused' = [fused EXCEPT !.data = @ \cup Written(Head(q))]
            /\ UNCHANGED alive
    /\ UNCHANGED <<tw, df, inputs, zmin, zmax, pc, locals, outfile,
                   enqueued, starts, joins, appends, reads, placed>>

Next ==
    \/ Prepare
    \/ RemoveOutput
    \/ StartChunk
    \/ Finish
    \/ SkipTile
    \/ ReadTile
    \/ ReadTileFails
    \/ PutPlacement
    \/ PutSentinel
    \/ Join
    \/ ConvertChunk
    \/ AppendChunk
    \/ ConsumerGet

Spec == Init /\ [][Next]_vars

\* ---------------------------------------------------------- the claims

\* the depth of the whole output, from the zmin and zmax run() was called with
Depth0 == OutputDepth(full_thickness, zmin0, zmax0)

RECURSIVE SumTo(_, _)
SumTo(seq, n) == IF n = 0 THEN 0 ELSE seq[n] + SumTo(seq, n - 1)

Last(seq) == seq[Len(seq)]
InChunk == pc \in {"iter", "put", "join", "convert", "save"}
Prepared == pc \notin {"start", "failed"}

\* C1: for an output depth D >= 0 and F >= 1 frames per chunk, the thickness list
\* is floor(D/F) chunks of F planes and then, when D mod F is not zero, one chunk
\* of D mod F planes; the thicknesses sum to D, and the window of the k-th chunk
\* starts where the window of chunk k-1 ended (the first at the initial zmin).
C1_ChunksPartitionDepth ==
    Prepared =>
        LET F == n_frames_in_ram
            n == Len(partial_thickness)
        IN /\ Depth0 >= 0 /\ F >= 1
           /\ F * (n - 1) < Depth0 \/ n = 0
           /\ Depth0 <= F * n
           /\ \A k \in 1..n : partial_thickness[k] =
                  (IF k * F <= Depth0 THEN F ELSE Depth0 - (k - 1) * F)
           /\ SumTo(partial_thickness, n) = Depth0
           /\ InChunk =>
                 /\ zmin = zmin0 + SumTo(partial_thickness, chunk - 1)
                 /\ zmax = zmin0 + SumTo(partial_thickness, chunk)
           /\ pc \in {"loop", "done"} =>
                 zmin = zmin0 + SumTo(partial_thickness, chunk)
           /\ pc = "done" => zmin = zmin0 + Depth0 /\ chunk = n

\* a run in its second chunk, which is the remainder chunk
C1_Witness ==
    /\ pc = "iter" /\ chunk = 2 /\ Len(partial_thickness) = 2
    /\ partial_thickness[2] < n_frames_in_ram
    /\ zmin = zmin0 + n_frames_in_ram

\* C2: once the old file is removed the output holds only planes of this run, in
\* increasing Z from the initial zmin, each once; when run() is done it holds
\* every plane of the output depth.
C2_OutputIsThisRun ==
    /\ pc \notin {"start", "remove", "failed"} =>
          \A i \in 1..Len(outfile) :
              outfile[i].run = "new" /\ outfile[i].z = zmin0 + i - 1
    /\ pc = "done" => Len(outfile) = Depth0

C2_Witness == pc = "done" /\ appends >= 2 /\ Len(outfile) >= 3

\* C3: chunks are sequential: one consumer started, joined and one append per
\* chunk; at most one consumer alive; a consumer is started and a tile read only
\* when every earlier chunk's consumer has ended and its chunk is appended.
C3_State ==
    /\ Cardinality(alive) <= 1
    /\ alive \subseteq {chunk}
    /\ starts = chunk
    /\ pc \in {"iter", "put", "join", "aborted"} =>
          joins = chunk - 1 /\ appends = chunk - 1
    /\ pc \in {"convert", "save"} =>
          joins = chunk /\ appends = chunk - 1 /\ alive = {}
    /\ pc \in {"loop", "done"} =>
          joins = chunk /\ appends = chunk /\ alive = {}
    /\ pc = "done" => starts = Len(partial_thickness)

C3_Step ==
    /\ starts' # starts => alive = {} /\ joins = starts /\ appends = starts
    /\ reads' # reads => alive = {chunk} /\ joins = chunk - 1 /\ appends = chunk - 1

C3_ChunksSequential == [](C3_State) /\ [][C3_Step]_vars

C3_Witness == pc = "done" /\ starts = 3 /\ joins = 3 /\ appends = 3

\* C4: the consumer gets the items in the order they were put; the sentinel is put
\* once, after every placement, and is the last item the consumer gets; when join
\* has returned the queue is empty and every item put has been got.
C4_FifoSentinelLast ==
    /\ enqueued = observed \o q
    /\ \A i \in 1..Len(enqueued) :
          IsSentinel(enqueued[i]) => i = Len(enqueued)
    /\ (chunk >= 1 /\ chunk \notin alive) =>
          observed # <<>> /\ IsSentinel(Last(observed))
    /\ (pc \in {"convert", "save"} \/ (pc \in {"loop", "done"} /\ chunk >= 1)) =>
          /\ q = <<>>
          /\ observed = enqueued
          /\ IsSentinel(Last(observed))

C4_Witness ==
    /\ pc = "convert" /\ Len(observed) >= 3
    /\ observed[1].slice[1] = 1 /\ observed[2].slice[1] = 2

\* C5: the queue never holds more than 20 items, and with 20 items pending neither
\* put takes effect.
C5_QueueBounded ==
    /\ Len(q) <= QueueMaxSize
    /\ Len(q) = QueueMaxSize => ~ENABLED PutPlacement /\ ~ENABLED PutSentinel

C5_Witness == Len(q) = QueueMaxSize /\ pc = "put" /\ tileIdx > QueueMaxSize

\* C6: while a chunk's consumer is alive the orchestrator does not touch the
\* buffer: only the consumer changes it, and the conversion and the append come
\* after join has returned, on a buffer the consumer no longer writes.
C6_State == pc \in {"convert", "save"} => alive = {}

C6_Step ==
    /\ (alive # {} /\ fused' # fused) => (observed' # observed /\ pc' = pc)
    /\ (fused'.dtype # fused.dtype \/ outfile' # outfile) => alive = {}

C6_BufferHandoff == [](C6_State) /\ [][C6_Step]_vars

C6_Witness ==
    pc = "save" /\ fused.dtype = "output" /\ Cardinality(fused.data) >= 2 /\ alive = {}

\* C7: a failed tile read in chunk k aborts the run: nothing more is read, chunk k
\* and the later ones are not appended, the earlier ones stay in the file, and no
\* thread is left waiting forever on the queue.
C7_AbortLeavesNoWaiter ==
    pc = "aborted" =>
        /\ appends = chunk - 1
        /\ Len(outfile) = zmin - zmin0
        /\ ~(chunk \in alive /\ q = <<>>)

\* the part of C7 that holds: the output of an aborted run is the earlier chunks
C7_AbortKeepsEarlierChunks ==
    /\ pc = "aborted" =>
          /\ appends = chunk - 1
          /\ Len(outfile) = zmin - zmin0
          /\ \A i \in 1..Len(outfile) : outfile[i].z = zmin0 + i - 1
    /\ [][pc = "aborted" => (reads' = reads /\ outfile' = outfile /\ pc' = pc)]_vars

\* C8: when 1.5 times one float32 XY plane exceeds the memory, run() fails before
\* any chunk: no buffer, no consumer, no tile read, nothing appended.
C8_NoBudgetFailsEarly ==
    (2 * ram < 3 * FloatItemSize * xy_elems /\ pc # "start") =>
        /\ pc = "failed"
        /\ fused = NoBuffer /\ alive = {} /\ q = <<>>
        /\ starts = 0 /\ reads = 0 /\ appends = 0 /\ chunk = 0
        /\ \A i \in 1..Len(outfile) : outfile[i].run = "old"

C8_Witness == pc = "failed" /\ n_frames_in_ram < 1 /\ outfile # <<>>

\* C9: output_shape reports the depth min(full_thickness, zmax) - zmin, zmax unset
\* meaning no upper bound.
C9_DepthIsClipped ==
    OutputDepth(full_thickness, zmin, zmax) =
        (IF zmax = None THEN full_thickness ELSE Min(full_thickness, zmax)) - zmin

\* C10: bigtiff is whether the bytes of the whole output exceed 0.95 * 2^32 (19/20
\* of 4096 units of 2^20 bytes), and every plane appended carries that decision.
C10_BigtiffDecidedOnce ==
    pc # "start" =>
        /\ bigtiff <=> (20 * Depth0 * xy_elems * itemsize > 19 * 4096)
        /\ \A i \in 1..Len(outfile) :
              outfile[i].run = "new" => outfile[i].bigtiff = bigtiff

C10_Witness ==
    /\ pc = "done" /\ bigtiff /\ appends >= 2
    /\ 20 * partial_thickness[1] * xy_elems * itemsize <= 19 * 4096

\* ------------------------------------------------------- TiffWrapper

\* nfrms: the pages of the (first) file, times the files in glob mode
TwNfrms(w) == IF w.glob_mode THEN w.pages * w.nfiles ELSE w.pages

\* the leading axes of what tifffile reads from n whole files of w.pages pages:
\* a one-page file is a plane with no frame axis, several files are stacked
TwWholeFilesShape(w, n) ==
    (IF n > 1 THEN <<n>> ELSE <<>>) \o (IF w.pages > 1 THEN <<w.pages>> ELSE <<>>)

\* tfile.asarray(range(start_frame, end_frame)): pages[k] for each k, an IndexError
\* past the last page, a ValueError when no page is selected
TwReadContainer(w, start_frame, end_frame) ==
    IF end_frame <= start_frame \/ end_frame > w.pages
    THEN [ok |-> FALSE, frames |-> <<>>, shape |-> <<>>]
    ELSE [ok |-> TRUE,
          frames |-> [k \in 1..(end_frame - start_frame) |-> start_frame + k - 1],
          shape |-> IF end_frame - start_frame > 1
                    THEN <<end_frame - start_frame>> ELSE <<>>]

\* flist[start_file:end_file]: the files from start_file up to end_file or the
\* end of the list, whichever comes first
TwFileSlice(w, start_file, end_file) ==
    start_file..(Min(end_file, w.nfiles) - 1)

\* tiff.imread(flist[start_file:end_file]): every page of every file selected, a
\* ValueError when the list is empty
TwReadFiles(w, start_frame, end_frame) ==
    LET frames_per_file == TwNfrms(w) \div w.nfiles
        start_file == start_frame \div frames_per_file
        end_file == end_frame \div frames_per_file
        files == TwFileSlice(w, start_file, end_file)
        n == Cardinality(files)
    IN IF n = 0
       THEN [ok |-> FALSE, frames |-> <<>>, shape |-> <<>>]
       ELSE [ok |-> TRUE,
             frames |-> [k \in 1..(n * w.pages) |-> start_file * w.pages + k - 1],
             shape |-> TwWholeFilesShape(w, n)]

\* slice(start_frame, end_frame): the read of the mode, then expand_dims when one
\* frame was asked for (dtype and copy change no frame)
TwSliceResult(w, start_frame, end_frame) ==
    LET a == IF ~w.glob_mode THEN TwReadContainer(w, start_frame, end_frame)
             ELSE TwReadFiles(w, start_frame, end_frame)
    IN IF a.ok /\ end_frame - start_frame = 1
       THEN [a EXCEPT !.shape = <<1>> \o @]
       ELSE a

\* open(): a directory is globbed and sorted, its first file opened; a file is opened
TwOpen ==
    /\ ~tw.opened
    /\ \E isdir \in BOOLEAN, npages \in 1..MaxPages :
         \E nf \in (IF isdir THEN 1..MaxFiles ELSE {0}) :
            tw' = [TwClosed EXCEPT !.opened = TRUE, !.glob_mode = isdir,
                                   !.pages = npages, !.nfiles = nf]
    /\ UNCHANGED <<df, inputs, zmin, zmax, pc, locals, q, fused, alive, outfile, history>>

\* slice(start_frame, end_frame=None, ...)
TwSlice ==
    /\ tw.opened
    /\ \E start_frame \in 0..(TwNfrms(tw) + 1) :
         \E end_arg \in {None} \cup (start_frame..(TwNfrms(tw) + 2)) :
            LET end_frame == IF end_arg = None THEN start_frame + 1 ELSE end_arg
            IN tw' = [tw EXCEPT !.call = <<start_frame, end_frame>>,
                                !.result = TwSliceResult(tw, start_frame, end_frame)]
    /\ UNCHANGED <<df, inputs, zmin, zmax, pc, locals, q, fused, alive, outfile, history>>

InitTiff ==
    /\ Init
    /\ Len(df) = 1 /\ df[1].Zs = 0 /\ df[1].nfrms = 1
    /\ ram = 4096 /\ xy_elems = 256 /\ itemsize = 1
    /\ zmin0 = 0 /\ zmax0 = None /\ outfile = <<>>

NextTiff == TwOpen \/ TwSlice

SpecTiff == InitTiff /\ [][NextTiff]_vars

TwCalled == tw.opened /\ tw.call[1] # None

\* C11: slice() fails whenever the range asked for reaches a frame beyond nfrms,
\* in either mode; it never returns a shorter volume.
C11_BeyondRangeFails ==
    (TwCalled /\ tw.call[1] < tw.call[2] /\ tw.call[2] > TwNfrms(tw)) => ~tw.result.ok

\* the part of C11 that holds: a single container fails beyond its last page
C11_ContainerBeyondRangeFails ==
    (TwCalled /\ ~tw.glob_mode /\ tw.call[2] > TwNfrms(tw)) => ~tw.result.ok

\* C12: in glob mode, for 0 <= start_frame < end_frame <= nfrms and any number of
\* frames per file, slice() returns exactly the frames [start_frame, end_frame),
\* with a leading frame axis of length end_frame - start_frame.
C12_GlobReadsExactRange ==
    (TwCalled /\ tw.glob_mode /\ tw.call[1] < tw.call[2] /\ tw.call[2] <= TwNfrms(tw)) =>
        /\ tw.result.ok
        /\ tw.result.frames =
              [k \in 1..(tw.call[2] - tw.call[1]) |-> tw.call[1] + k - 1]
        /\ tw.result.shape = <<tw.call[2] - tw.call[1]>>

\* the part of C12 that holds: with one frame per file the range is read exactly
C12_SingleFrameFilesExactRange ==
    (TwCalled /\ tw.glob_mode /\ tw.pages = 1
        /\ tw.call[1] < tw.call[2] /\ tw.call[2] <= TwNfrms(tw)) =>
        /\ tw.result.ok
        /\ tw.result.frames =
              [k \in 1..(tw.call[2] - tw.call[1]) |-> tw.call[1] + k - 1]
        /\ tw.result.shape = <<tw.call[2] - tw.call[1]>>

\* ------------------------------------------- the claims on placements

\* the placements of the chunk so far: those put, and the one about to be put
ChunkPlacements ==
    SelectSeq(enqueued, LAMBDA it : ~IsSentinel(it))
        \o (IF pc = "put" THEN <<slice>> ELSE <<>>)

\* the tiles the iterator has passed
TilesPassed == 1..(Min(tileIdx, Len(df) + 1) - 1)

\* the tile's frames [Zs, Zs + nfrms) meet the window [zmin, zmax)
Intersects(row) == Max(row.Zs, zmin) < Min(row.Zs + row.nfrms, zmax)

\* C13: a tile that is not skipped gets exactly one placement, of its frames
\* [max(zmin - Zs, 0), min(zmax - Zs, nfrms)), at (Zs + z_from - zmin, Ys, Xs).
C13_PlacementOfTile ==
    InChunk =>
        /\ \A k \in 1..Len(ChunkPlacements) :
              LET it == ChunkPlacements[k]
                  row == df[it.slice[1]]
              IN /\ it.slice[2] = Max(zmin - row.Zs, 0)
                 /\ it.slice[3] = Min(zmax - row.Zs, row.nfrms)
                 /\ it.top_left = <<row.Zs + it.slice[2] - zmin, row.Ys, row.Xs>>
        /\ \A i \in TilesPassed :
              Cardinality({k \in 1..Len(ChunkPlacements) :
                              ChunkPlacements[k].slice[1] = i})
                  = (IF Skipped(df[i]) THEN 0 ELSE 1)

\* a second chunk in which a tile is placed from one of its later frames
C13_Witness ==
    /\ pc = "join" /\ chunk = 2
    /\ \E k \in 1..Len(ChunkPlacements) :
          ChunkPlacements[k].slice[2] > 0 /\ ChunkPlacements[k].top_left[1] = 0

\* C14: a tile is passed over, unread and unplaced, exactly when none of its frames
\* meets the window; a tile with a frame in the window is read and placed.
C14_State ==
    InChunk =>
        \A i \in TilesPassed :
            Intersects(df[i]) <=>
                (\E k \in 1..Len(ChunkPlacements) : ChunkPlacements[k].slice[1] = i)

C14_Step ==
    /\ (pc = "iter" /\ pc' = "iter" /\ tileIdx' = tileIdx + 1) =>
          /\ ~Intersects(CurTile)
          /\ reads' = reads /\ enqueued' = enqueued /\ q' = q /\ slice' = slice
    /\ reads' # reads => Intersects(CurTile)

C14_SkipCorrect == [](C14_State) /\ [][C14_Step]_vars

\* the first of two tiles was passed over
C14_Witness ==
    /\ pc = "iter" /\ tileIdx = 2 /\ Len(df) = 2
    /\ ~Intersects(df[1]) /\ ChunkPlacements = <<>>

\* the overlaps of the claim: those meeting [z_from, z_to), shifted, Z_from clamped
HalfOpenClip(ov, z_from, z_to) ==
    LET kept == SelectSeq(ov, LAMBDA o : o.Z_from < z_to /\ o.Z_to > z_from)
    IN [k \in 1..Len(kept) |->
            [Z_from |-> Max(kept[k].Z_from - z_from, 0),
             Z_to |-> kept[k].Z_to - z_from]]

\* C15: the overlaps forwarded are the tile's overlaps that meet the half-open
\* range [z_from, z_to), shifted by -z_from and with a negative Z_from set to 0.
C15_OverlapsClippedHalfOpen ==
    InChunk =>
        \A k \in 1..Len(ChunkPlacements) :
            LET it == ChunkPlacements[k]
            IN it.overlaps =
                  HalfOpenClip(FmOverlaps(df, it.slice[1]), it.slice[2], it.slice[3])

\* C16: the placements of a chunk, in global Z, cover every plane of the window
\* and none reaches outside it.
C16_ChunkCovered ==
    pc \in {"join", "convert", "save"} =>
        /\ \A z \in zmin..(zmax - 1) :
              \E k \in 1..Len(ChunkPlacements) :
                  LET it == ChunkPlacements[k]
                      Zs == df[it.slice[1]].Zs
                  IN Zs + it.slice[2] <= z /\ z < Zs + it.slice[3]
        /\ \A k \in 1..Len(ChunkPlacements) :
              LET it == ChunkPlacements[k]
                  Zs == df[it.slice[1]].Zs
              IN zmin <= Zs + it.slice[2] /\ Zs + it.slice[3] <= zmax

\* C17: every placement lies inside the chunk's buffer along Z.
C17_PlacementInsideBuffer ==
    InChunk =>
        /\ fused.depth = zmax - zmin
        /\ \A k \in 1..Len(ChunkPlacements) :
              LET it == ChunkPlacements[k]
              IN /\ it.top_left[1] >= 0
                 /\ it.top_left[1] + (it.slice[3] - it.slice[2]) <= fused.depth
        /\ \A w \in fused.data : 0 <= w[1] /\ w[1] < fused.depth

\* a placement that starts inside the buffer and ends at its last plane
C17_Witness ==
    /\ pc = "join"
    /\ \E k \in 1..Len(ChunkPlacements) :
          LET it == ChunkPlacements[k]
          IN /\ it.top_left[1] > 0
             /\ it.top_left[1] + (it.slice[3] - it.slice[2]) = fused.depth

\* the entries of placed that are of tile i
PlacedOf(i) == SelectSeq(placed, LAMBDA e : e[2] = i)

\* C18: the ranges read from a tile in successive chunks follow one another in
\* increasing order; when run() is done every tile frame in the run's window
\* [zmin0, zmin0 + depth) has been placed exactly once, and no other frame.
C18_FramesPlacedOnce ==
    /\ \A i \in 1..Len(df) :
          LET mine == PlacedOf(i)
          IN /\ \A k \in 1..Len(mine) :
                   0 <= mine[k][3] /\ mine[k][3] < mine[k][4]
                       /\ mine[k][4] <= df[i].nfrms
             /\ \A k \in 1..(Len(mine) - 1) :
                   mine[k + 1][3] = mine[k][4] /\ mine[k + 1][1] > mine[k][1]
    /\ pc = "done" =>
          \A i \in 1..Len(df) : \A f \in 0..(df[i].nfrms - 1) :
              Cardinality({k \in 1..Len(placed) :
                              placed[k][2] = i /\ placed[k][3] <= f /\ f < placed[k][4]})
                  = (IF zmin0 <= df[i].Zs + f /\ df[i].Zs + f < zmin0 + Depth0
                     THEN 1 ELSE 0)

\* a finished run that read one tile in two chunks
C18_Witness ==
    pc = "done" /\ \E i \in 1..Len(df) : Len(PlacedOf(i)) >= 2

\* C20: every overlap forwarded lies inside the slice: 0 <= Z_from <= Z_to <= depth.
C20_OverlapInsideSlice ==
    InChunk =>
        \A k \in 1..Len(ChunkPlacements) :
            LET it == ChunkPlacements[k]
            IN \A j \in 1..Len(it.overlaps) :
                  /\ 0 <= it.overlaps[j].Z_from
                  /\ it.overlaps[j].Z_from <= it.overlaps[j].Z_to
                  /\ it.overlaps[j].Z_to <= it.slice[3] - it.slice[2]

\* C20 as amended: 0 <= Z_from <= Z_to and Z_from <= depth; Z_to is only shifted
C20_OverlapStartsInsideSlice ==
    InChunk =>
        \A k \in 1..Len(ChunkPlacements) :
            LET it == ChunkPlacements[k]
            IN \A j \in 1..Len(it.overlaps) :
                  /\ 0 <= it.overlaps[j].Z_from
                  /\ it.overlaps[j].Z_from <= it.overlaps[j].Z_to
                  /\ it.overlaps[j].Z_from <= it.slice[3] - it.slice[2]

\* an overlap clamped at the start of its slice and reaching past the slice's end
C20_Witness ==
    /\ InChunk
    /\ \E k \in 1..Len(ChunkPlacements) :
          LET it == ChunkPlacements[k]
          IN /\ it.slice[2] > 0
             /\ \E j \in 1..Len(it.overlaps) :
                   it.overlaps[j].Z_from = 0 /\ it.overlaps[j].Z_to > 0

\* --------------------------------------------------------- termination

\* the steps of run() when every tile read returns
RunSteps ==
    \/ Prepare
    \/ RemoveOutput
    \/ StartChunk
    \/ Finish
    \/ SkipTile
    \/ ReadTile
    \/ PutPlacement
    \/ PutSentinel
    \/ Join
    \/ ConvertChunk
    \/ AppendChunk

NextReturning == RunSteps \/ ConsumerGet

\* the runs whose end is followed: the pixel size and a stale output file change
\* the TIFF flavour and the removal only, never the steps taken; with the smaller
\* memory budget the two plane sizes give frames_per_chunk = 0 and 2
InitFair == Init /\ itemsize = 1 /\ outfile = <<>> /\ ram = 4096

\* the main thread runs whenever it is not blocked, and so does the consumer
FairSpec == InitFair /\ [][NextReturning]_vars /\ WF_vars(RunSteps) /\ WF_vars(ConsumerGet)

\* C19: with reads that return and a fairly scheduled consumer, run() ends with no
\* consumer alive, the queue empty and zmin = zmax = the end of the output window.
C19_EndsWithWindowClosed ==
    pc = "done" =>
        alive = {} /\ q = <<>> /\ zmin = zmin0 + Depth0 /\ zmax = zmin

C19_EndState ==
    pc = "done" =>
        /\ alive = {} /\ q = <<>>
        /\ zmin = zmin0 + Depth0
        /\ chunk >= 1 => zmax = zmin
        /\ chunk = 0 => zmax = zmax0 /\ Depth0 = 0

\* C19 as amended: run() always ends, a full queue is always drained and join
\* always returns; a normal end has no consumer alive, an empty queue, zmin at the
\* end of the output window, and zmax = zmin once a chunk has been processed.
C19_RunTerminates ==
    /\ <>(pc \in {"done", "failed"})
    /\ (Len(q) = QueueMaxSize) ~> (Len(q) < QueueMaxSize)
    /\ (pc = "join") ~> (pc = "convert")
    /\ [](C19_EndState)

\* a finished run that put more placements in a chunk than the queue holds
C19_Witness ==
    pc = "done" /\ alive = {} /\ q = <<>> /\ zmax = zmin /\ reads > QueueMaxSize

====
